---- MODULE Spec2Model ----
(***************************************************************************)
(* Model of the query-plans-visualiser core: the plan tree model           *)
(* (query_plan_visualizer.py) and the QEP processor (qep_processor.py).    *)
(*                                                                         *)
(* JSON values, as Python holds them after json decoding, are tagged       *)
(* records: a dict is the sequence of its (key, value) entries in          *)
(* insertion order, a list the sequence of its items.                      *)
(*                                                                         *)
(* A cost is an integer number of cost units of 0.002 (CostUnitsPerCent    *)
(* units make 0.01), so that rounding to two decimals does something and   *)
(* never meets a tie.                                                      *)
(***************************************************************************)
EXTENDS Integers, Sequences, FiniteSets, TLC

VARIABLES
    mode,           \* which entry point of the program this behaviour runs
    query_plan,     \* visualize_query_plan: the plan list [{"Plan": ...}]
    name_counter,   \* the name_counter dict of the last top-level call
    runs,           \* number of top-level annotation calls made so far
    lstAllQEPs,     \* compareActualQEP: the distinct plans found so far
    actualQEP,      \* compareActualQEP: the plan of the literal query
    ret,            \* what compareActualQEP returned, <<status, plan number>>
    pc,             \* _retrieveQEPs_*: the position in the loop body
    templateQuery,  \* the template processQuery passes to _retrieveQEPs_*
    query,          \* _retrieveQEPs_*: the local "query", a list of text pieces
    origQuery,      \* _retrieveQEPs_*: the local "origQuery"
    lstSelValsDimension01,  \* selectivity values of the first attribute
    lstSelValsDimension02,  \* those of the second attribute, or None
    index,          \* loop index over lstSelValsDimension01 (0-based)
    index2,         \* loop index over lstSelValsDimension02 (0-based)
    planIndexes,    \* the plan number recorded for each grid point so far
    sent,           \* the queries passed to objCommunicator.getQEP so far
    lastQEP,        \* _retrieveQEPs_*: the local "qep", the last plan received
    engine,         \* the plans the database engine chooses among for the query
    lstPredicateAttributes,     \* generateFoundExplanation: the attribute names
    selectivityMap,             \* generateFoundExplanation: the flat plan grid
    dictSelectvityRanges,       \* what _retrieveSelectivityRanges returned
    lstSelectivityExplanations, \* what generateFoundExplanation returned
    entry_query,    \* onExplainQuery: the comparisons of the query typed in
    pg_stats,       \* the histogram bounds the database holds for a column
    lookups,        \* the statistics calls made on the Communicator so far
    processResult,  \* onExplainQuery: "result", what processQuery returned
    raised,         \* the exception that ended the callback, "" for none
    shown           \* the text passed to displayExplanation, "" for none

annotVars == <<query_plan, name_counter, runs>>
equivVars == <<lstAllQEPs, actualQEP, ret>>
enumVars == <<pc, templateQuery, query, origQuery, lstSelValsDimension01,
              lstSelValsDimension02, index, index2, planIndexes, sent, lastQEP,
              engine>>
rangeVars == <<lstPredicateAttributes, selectivityMap, dictSelectvityRanges,
               lstSelectivityExplanations>>
reqVars == <<entry_query, pg_stats, lookups, processResult, raised, shown>>
vars == <<mode, annotVars, equivVars, enumVars, rangeVars, reqVars>>

---------------------------------------------------------------------------
(* JSON values *)

JNone == [t |-> "none"]
JStr(s) == [t |-> "str", s |-> s]
JNum(n) == [t |-> "num", n |-> n]
JList(xs) == [t |-> "list", items |-> xs]
JDict(es) == [t |-> "dict", entries |-> es]
Entry(k, v) == [k |-> k, v |-> v]
EmptyDict == JDict(<<>>)

IsDict(v) == v.t = "dict"
IsList(v) == v.t = "list"

\* Python == on scalars and keys: values of different types are unequal
PyEq(a, b) == a.t = b.t /\ a = b

\* key in d
HasKey(d, k) == \E i \in 1..Len(d.entries) : PyEq(d.entries[i].k, k)

KeyIndex(d, k) == CHOOSE i \in 1..Len(d.entries) : PyEq(d.entries[i].k, k)

\* d.get(k): None when the key is absent
Get(d, k) == IF HasKey(d, k) THEN d.entries[KeyIndex(d, k)].v ELSE JNone

\* d[k] = v: an existing key keeps its place, a new key goes last
Put(d, k, v) ==
    IF HasKey(d, k)
    THEN JDict([d.entries EXCEPT ![KeyIndex(d, k)] = Entry(k, v)])
    ELSE JDict(Append(d.entries, Entry(k, v)))

K_NodeType == JStr("Node Type")
K_TotalCost == JStr("Total Cost")
K_PlanRows == JStr("Plan Rows")
K_Plans == JStr("Plans")
K_RelationName == JStr("Relation Name")
K_Plan == JStr("Plan")
K_id == JStr("id")
K_cost == JStr("cost")

---------------------------------------------------------------------------
(* Raw plans as the engine returns them *)

\* a scan leaf: no "Plans" key, a relation name
LeafPlan(kind, cost, rows) ==
    JDict(<<Entry(K_NodeType, JStr(kind)),
            Entry(K_RelationName, JStr("lineitem")),
            Entry(K_TotalCost, JNum(cost)),
            Entry(K_PlanRows, JNum(rows))>>)

\* an operator over sub-plans
InnerPlan(kind, cost, rows, children) ==
    JDict(<<Entry(K_NodeType, JStr(kind)),
            Entry(K_TotalCost, JNum(cost)),
            Entry(K_PlanRows, JNum(rows)),
            Entry(K_Plans, JList(children))>>)

\* the plan list of EXPLAIN (FORMAT JSON): one element holding the root
QEP(root) == JList(<<JDict(<<Entry(K_Plan, root)>>)>>)

LeafKindOf == <<"Seq Scan", "Index Scan">>
InnerKindOf == <<"Hash Join", "Nested Loop">>

\* The shapes of the plan trees with n nodes: the depth of each node, the
\* nodes taken in pre-order
DepthSeqs(n) ==
    {d \in [1..n -> 0..(n - 1)] :
        /\ d[1] = 0
        /\ \A i \in 2..n : d[i] >= 1 /\ d[i] <= d[i - 1] + 1}

\* the last node of the subtree of node i
SubtreeEnd(d, i) ==
    IF \E k \in (i + 1)..Len(d) : d[k] <= d[i]
    THEN (CHOOSE k \in (i + 1)..Len(d) :
            /\ d[k] <= d[i]
            /\ \A j \in (i + 1)..(k - 1) : d[j] > d[i]) - 1
    ELSE Len(d)

\* the children of node i, left to right
ChildrenOf(d, i) ==
    SelectSeq([k \in 1..(SubtreeEnd(d, i) - i) |-> i + k],
              LAMBDA j : d[j] = d[i] + 1)

RECURSIVE BuildPlan(_, _, _, _, _)
\* the plan rooted at node i: kind[j] picks the operator kind of node j
\* among the scans (a leaf) or the joins (a node with sub-plans)
BuildPlan(d, kind, cost, rows, i) ==
    LET ch == ChildrenOf(d, i) IN
    IF Len(ch) = 0
    THEN LeafPlan(LeafKindOf[kind[i]], cost[i], rows[i])
    ELSE InnerPlan(InnerKindOf[kind[i]], cost[i], rows[i],
                   [k \in 1..Len(ch) |-> BuildPlan(d, kind, cost, rows, ch[k])])

---------------------------------------------------------------------------
(* query_plan_visualizer.py *)

CostUnitsPerCent == 5

\* round(x, 2) of a non-negative cost: the nearest multiple of 0.01
Round2(x) == ((x + (CostUnitsPerCent \div 2)) \div CostUnitsPerCent) * CostUnitsPerCent

Max(a, b) == IF a >= b THEN a ELSE b
Min(a, b) == IF a <= b THEN a ELSE b

\* Cost without "x = max(x, 0)"
CostNoClamp(x) == Round2(x)

\* class Cost(float): max(x, 0), then round(x, 2)
Cost(x) == Round2(Max(x, 0))

\* name_counter.get(name, 1)
CounterGet(counter, name) == IF name \in DOMAIN counter THEN counter[name] ELSE 1

\* the assignment without the increment: name_counter[name] = n - 1
CounterPutStale(counter, name, n) ==
    [k \in DOMAIN counter \cup {name} |-> IF k = name THEN n - 1 ELSE counter[k]]

\* name_counter[name] = n
CounterPut(counter, name, n) ==
    [k \in DOMAIN counter \cup {name} |-> IF k = name THEN n ELSE counter[k]]

NoCounter == [isNone |-> TRUE, dict |-> <<>>]
SomeCounter(c) == [isNone |-> FALSE, dict |-> c]

\* a counter that outlives the call, as a mutable default argument would
StaleNameCounter(passed, left) == IF passed.isNone THEN left ELSE passed.dict

\* "if name_counter is None: name_counter = {}"; left is the dict the
\* previous top-level call ended with, which the code never reuses
StartNameCounter(passed, left) == IF passed.isNone THEN <<>> ELSE passed.dict

\* "{}_{}".format(current_plan_name, current_name_increment)
FormatId(name, increment) == name \o "_" \o ToString(increment)

RECURSIVE GenerateIdsAndCost(_, _, _), GenerateChildren(_, _, _, _, _)
RECURSIVE GenerateChildrenOwnCosts(_, _, _, _, _)
\* the loop over children_plans summing the children's own costs
GenerateChildrenOwnCosts(children, i, counter, children_costs, left) ==
    IF i > Len(children)
    THEN [plans |-> children, counter |-> counter, children_costs |-> children_costs]
    ELSE LET r == GenerateIdsAndCost(children[i], SomeCounter(counter), left)
         IN  GenerateChildrenOwnCosts([children EXCEPT ![i] = r.plan], i + 1,
                                      r.counter,
                                      children_costs + Get(r.plan, K_cost).n,
                                      left)

RECURSIVE GenerateIdsAndCostChildrenFirst(_, _, _)
\* the id taken after the loop over children_plans instead of before it
GenerateIdsAndCostChildrenFirst(current_plan, passed_counter, left) ==
    LET counter0 == StartNameCounter(passed_counter, left)
        current_plan_name == Get(current_plan, K_NodeType).s
        children_plans == Get(current_plan, K_Plans)
        hasChildren == IsList(children_plans) /\ Len(children_plans.items) > 0
        done == IF hasChildren
                THEN GenerateChildren(children_plans.items, 1, counter0, 0, left)
                ELSE [plans |-> <<>>, counter |-> counter0, children_costs |-> 0]
        current_name_increment == CounterGet(done.counter, current_plan_name)
        plan1 == Put(current_plan, K_id,
                     JStr(FormatId(current_plan_name, current_name_increment)))
        plan2 == IF hasChildren
                 THEN Put(plan1, K_Plans, JList(done.plans))
                 ELSE plan1
        current_plan_cost == Get(plan2, K_TotalCost).n - done.children_costs
    IN  [plan |-> Put(plan2, K_cost, JNum(Cost(current_plan_cost))),
         counter |-> CounterPut(done.counter, current_plan_name,
                                current_name_increment + 1)]

\* _generate_ids_and_cost(current_plan, name_counter): the annotated plan
\* and the counter as the call leaves it
GenerateIdsAndCost(current_plan, passed_counter, left) ==
    LET counter0 == StartNameCounter(passed_counter, left)
        current_plan_name == Get(current_plan, K_NodeType).s
        current_name_increment == CounterGet(counter0, current_plan_name)
        plan1 == Put(current_plan, K_id,
                     JStr(FormatId(current_plan_name, current_name_increment)))
        counter1 == CounterPut(counter0, current_plan_name,
                               current_name_increment + 1)
        children_plans == Get(plan1, K_Plans)
        hasChildren == IsList(children_plans) /\ Len(children_plans.items) > 0
        done == IF hasChildren
                THEN GenerateChildren(children_plans.items, 1, counter1, 0, left)
                ELSE [plans |-> <<>>, counter |-> counter1, children_costs |-> 0]
        plan2 == IF hasChildren
                 THEN Put(plan1, K_Plans, JList(done.plans))
                 ELSE plan1
        current_plan_cost == Get(plan2, K_TotalCost).n - done.children_costs
    IN  [plan |-> Put(plan2, K_cost, JNum(Cost(current_plan_cost))),
         counter |-> done.counter]

\* the loop over children_plans, from child i on
GenerateChildren(children, i, counter, children_costs, left) ==
    IF i > Len(children)
    THEN [plans |-> children, counter |-> counter, children_costs |-> children_costs]
    ELSE LET r == GenerateIdsAndCost(children[i], SomeCounter(counter), left)
         IN  GenerateChildren([children EXCEPT ![i] = r.plan], i + 1, r.counter,
                              children_costs + Cost(Get(r.plan, K_TotalCost).n),
                              left)

\* query_plan[0].get('Plan')
FirstPlan(qp) == Get(qp.items[1], K_Plan)

\* the part of visualize_query_plan(query_plan) that changes its argument:
\* the first plan is annotated in place
VisualizedPlan(qp, left) ==
    LET r == GenerateIdsAndCost(FirstPlan(qp), NoCounter, left)
    IN  [query_plan |-> JList(<<Put(qp.items[1], K_Plan, r.plan)>>),
         counter |-> r.counter]

---------------------------------------------------------------------------
(* Similarity scores: non-negative rationals <<numerator, denominator>> in *)
(* lowest terms, for the floats jsondiff computes with                     *)

RECURSIVE GCD(_, _)
GCD(a, b) == IF b = 0 THEN a ELSE GCD(b, a % b)

Rat(n, d) == LET g == GCD(n, d) IN <<n \div g, d \div g>>
RZero == <<0, 1>>
ROne == <<1, 1>>
RAdd(a, b) == Rat(a[1] * b[2] + b[1] * a[2], a[2] * b[2])
RDivInt(a, k) == Rat(a[1], a[2] * k)
RLess(a, b) == a[1] * b[2] < b[1] * a[2]
RMax(a, b) == IF RLess(a, b) THEN b ELSE a
\* 0.5 + 0.5 * s
RHalfPlusHalf(s) == Rat(s[2] + s[1], 2 * s[2])

---------------------------------------------------------------------------
(* jsondiff.diff(a, b, syntax="explicit"), the library call of _compareQEPs *)

SymInsert == [t |-> "sym", s |-> "insert"]
SymDelete == [t |-> "sym", s |-> "delete"]
SymUpdate == [t |-> "sym", s |-> "update"]
JTuple(xs) == [t |-> "tuple", items |-> xs]

\* the value and the similarity a diff step yields
Scored(d, s) == [d |-> d, s |-> s]

\* emit_value_diff of the explicit syntax
EmitValueDiff(a, b, s) == IF s = ROne THEN EmptyDict ELSE b

\* emit_dict_diff of the explicit syntax: b itself at similarity 0, {} at
\* similarity 1, else {insert: {added}, update: {changed}, delete: [keys]}
\* with each of the three present only when it is not empty
EmitDictDiff(a, b, s, added, changed, removed) ==
    IF s = RZero THEN b
    ELSE IF s = ROne THEN EmptyDict
    ELSE LET d1 == IF Len(added) > 0
                   THEN Put(EmptyDict, SymInsert, JDict(added))
                   ELSE EmptyDict
             d2 == IF Len(changed) > 0
                   THEN Put(d1, SymUpdate, JDict(changed))
                   ELSE d1
         IN  IF Len(removed) > 0
             THEN Put(d2, SymDelete,
                      JList([i \in 1..Len(removed) |-> removed[i].k]))
             ELSE d2

\* emit_list_diff of the explicit syntax: insert holds a list of
\* (position, value) tuples, delete a list of positions
EmitListDiff(a, b, s, inserted, changed, deleted) ==
    IF s = RZero THEN b
    ELSE IF s = ROne THEN EmptyDict
    ELSE LET d1 == IF Len(inserted) > 0
                   THEN Put(JDict(changed), SymInsert, JList(inserted))
                   ELSE JDict(changed)
         IN  IF Len(deleted) > 0
             THEN Put(d1, SymDelete,
                      JList([i \in 1..Len(deleted) |-> deleted[i].items[1]]))
             ELSE d1

RECURSIVE ObjDiff(_, _), DictDiffLoop(_, _, _, _), LcsFill(_, _, _, _, _),
          ListDiff0(_, _, _, _, _), ListDiffLoop(_, _, _)

\* the entries of b whose key a lacks, in b's order
AddedEntries(a, b) ==
    SelectSeq(b.entries, LAMBDA e : ~HasKey(a, e.k))

\* _dict_diff: the loop over a's items
DictDiffLoop(a, b, i, acc) ==
    IF i > Len(a.entries) THEN acc
    ELSE LET e == a.entries[i] IN
         IF ~HasKey(b, e.k)
         THEN DictDiffLoop(a, b, i + 1,
                  [acc EXCEPT !.removed = Append(@, e), !.nremoved = @ + 1])
         ELSE LET r == ObjDiff(e.v, Get(b, e.k)) IN
              DictDiffLoop(a, b, i + 1,
                  [acc EXCEPT !.nmatched = @ + 1,
                              !.changed = IF RLess(r.s, ROne)
                                          THEN Append(@, Entry(e.k, r.d))
                                          ELSE @,
                              !.smatched = RAdd(@, RHalfPlusHalf(r.s))])

\* _dict_diff(a, b)
DictDiff(a, b) ==
    LET acc == DictDiffLoop(a, b, 1,
                   [removed |-> <<>>, changed |-> <<>>, nremoved |-> 0,
                    nmatched |-> 0, smatched |-> RZero])
        added == AddedEntries(a, b)
        n_tot == acc.nremoved + acc.nmatched + Len(added)
        s == IF n_tot # 0 THEN RDivInt(acc.smatched, n_tot) ELSE ROne
    IN  Scored(EmitDictDiff(a, b, s, added, acc.changed, acc.removed), s)

\* _list_diff: the matrix C, filled row by row from cell (i, j) on
LcsFill(X, Y, C, i, j) ==
    IF i > Len(X) THEN C
    ELSE IF j > Len(Y) THEN LcsFill(X, Y, C, i + 1, 1)
    ELSE LET s == ObjDiff(X[i], Y[j]).s
             c == RMax(RMax(C[<<i, j - 1>>], C[<<i - 1, j>>]),
                       RAdd(C[<<i - 1, j - 1>>], s))
         IN  LcsFill(X, Y, [C EXCEPT ![<<i, j>>] = c], i, j + 1)

ListItem(sign, value, pos, s) == [sign |-> sign, value |-> value, pos |-> pos, s |-> s]

\* _list_diff_0: the walk back from cell (i, j), already in reversed order
ListDiff0(C, X, Y, i, j) ==
    LET r == IF i > 0 /\ j > 0 THEN ObjDiff(X[i], Y[j]) ELSE Scored(JNone, RZero)
    IN  IF i > 0 /\ j > 0 /\ RLess(RZero, r.s)
           /\ C[<<i, j>>] = RAdd(C[<<i - 1, j - 1>>], r.s)
        THEN Append(ListDiff0(C, X, Y, i - 1, j - 1), ListItem(0, r.d, j - 1, r.s))
        ELSE IF j > 0 /\ (i = 0 \/ ~RLess(C[<<i, j - 1>>], C[<<i - 1, j>>]))
        THEN Append(ListDiff0(C, X, Y, i, j - 1), ListItem(1, Y[j], j - 1, RZero))
        ELSE IF i > 0 /\ (j = 0 \/ RLess(C[<<i, j - 1>>], C[<<i - 1, j>>]))
        THEN Append(ListDiff0(C, X, Y, i - 1, j), ListItem(-1, X[i], i - 1, RZero))
        ELSE <<>>

\* _list_diff: the loop over the items of _list_diff_0
ListDiffLoop(items, k, acc) ==
    IF k > Len(items) THEN acc
    ELSE LET it == items[k]
             tup == JTuple(<<JNum(it.pos), it.value>>)
             acc1 == IF it.sign = 1
                     THEN [acc EXCEPT !.inserted = Append(@, tup)]
                     ELSE IF it.sign = -1
                     THEN [acc EXCEPT !.deleted = <<tup>> \o @]
                     ELSE IF RLess(it.s, ROne)
                     THEN [acc EXCEPT !.changed = Append(@, Entry(JNum(it.pos), it.value))]
                     ELSE acc
         IN  ListDiffLoop(items, k + 1, [acc1 EXCEPT !.tot_s = RAdd(@, it.s)])

\* _list_diff(X, Y)
ListDiff(a, b) ==
    LET X == a.items
        Y == b.items
        C0 == [c \in (0..Len(X)) \X (0..Len(Y)) |-> RZero]
        C == LcsFill(X, Y, C0, 1, 1)
        acc == ListDiffLoop(ListDiff0(C, X, Y, Len(X), Len(Y)), 1,
                   [inserted |-> <<>>, deleted |-> <<>>, changed |-> <<>>,
                    tot_s |-> RZero])
        tot_n == Len(X) + Len(acc.inserted)
        s == IF tot_n = 0 THEN ROne ELSE RDivInt(acc.tot_s, tot_n)
    IN  Scored(EmitListDiff(a, b, s, acc.inserted, acc.changed, acc.deleted), s)

\* _obj_diff(a, b); two references to one object ("a is b") give what two
\* equal values give, {} at similarity 1
ObjDiff(a, b) ==
    IF IsDict(a) /\ IsDict(b) THEN DictDiff(a, b)
    ELSE IF IsList(a) /\ IsList(b) THEN ListDiff(a, b)
    ELSE IF ~PyEq(a, b) THEN Scored(EmitValueDiff(a, b, RZero), RZero)
    ELSE Scored(EmitValueDiff(a, b, ROne), ROne)

---------------------------------------------------------------------------
(* qep_processor.py: plan equivalence *)

RET_QEP_FOUND == 5
RET_QEP_NOT_FOUND == 6

\* _compareQEPs(qep1, qep2)
CompareQEPs(qep1, qep2) == ObjDiff(qep1, qep2).d

\* what a call raises when obj has no items()
Raised == [t |-> "raised", s |-> "AttributeError"]

RECURSIVE FindValueInNestedDict(_, _), FindInValues(_, _, _)
\* _findValueInNestedDict(obj, key): None when no dict reachable through
\* dict values holds the key
FindValueInNestedDict(obj, key) ==
    IF ~IsDict(obj) THEN Raised
    ELSE IF HasKey(obj, key) THEN Get(obj, key)
    ELSE FindInValues(obj, key, 1)

\* the loop over obj.items(), from entry i on: only dict values are searched
FindInValues(obj, key, i) ==
    IF i > Len(obj.entries) THEN JNone
    ELSE LET v == obj.entries[i].v IN
         IF IsDict(v)
         THEN LET item == FindValueInNestedDict(v, key) IN
              IF item.t # "none" THEN item ELSE FindInValues(obj, key, i + 1)
         ELSE FindInValues(obj, key, i + 1)

\* bIsDifferentPlan of the callers
IsDifferentPlan(existingQEP, qep) ==
    FindValueInNestedDict(CompareQEPs(existingQEP, qep), K_NodeType)

\* "if bIsDifferentPlan is None": a similar plan has been found
SimilarPlan(existingQEP, qep) == IsDifferentPlan(existingQEP, qep).t = "none"

RECURSIVE CompareActualLoop(_, _, _), CompareActualLoopZeroBased(_, _, _),
          CompareActualLoopLast(_, _, _)
\* the loop without its return: the plan number of the last similar plan
CompareActualLoopLast(actual, lst, i) ==
    IF i > Len(lst) THEN <<RET_QEP_NOT_FOUND, 0>>
    ELSE LET later == CompareActualLoopLast(actual, lst, i + 1) IN
         IF later[1] = RET_QEP_FOUND THEN later
         ELSE IF SimilarPlan(lst[i], actual) THEN <<RET_QEP_FOUND, i>>
         ELSE <<RET_QEP_NOT_FOUND, 0>>

\* the loop returning the list index i instead of the plan number i + 1
CompareActualLoopZeroBased(actual, lst, i) ==
    IF i > Len(lst) THEN <<RET_QEP_NOT_FOUND, 0>>
    ELSE IF SimilarPlan(lst[i], actual) THEN <<RET_QEP_FOUND, i - 1>>
    ELSE CompareActualLoopZeroBased(actual, lst, i + 1)

\* compareActualQEP: the loop over lstAllQEPs, from index i (1-based) on
CompareActualLoop(actual, lst, i) ==
    IF i > Len(lst) THEN <<RET_QEP_NOT_FOUND, 0>>
    ELSE IF SimilarPlan(lst[i], actual) THEN <<RET_QEP_FOUND, i>>
    ELSE CompareActualLoop(actual, lst, i + 1)

\* compareActualQEP(actualQEP, lstAllQEPs); plan number 0 stands for None
CompareActualQEP(actual, lst) == CompareActualLoop(actual, lst, 1)

---------------------------------------------------------------------------
(* qep_processor.py: enumeration of the plans of a query template.  A query *)
(* is the list of its text pieces: a piece is the predicate token or text   *)
(* that holds no token, so that str.replace acts on whole pieces            *)

RESOLUTION == 10
PREDICATE_TOKEN == " :varies"

\* a list of selectivity values, or None
NoVals == [isNone |-> TRUE, vals |-> <<>>]
SomeVals(vs) == [isNone |-> FALSE, vals |-> vs]

\* str(selectivityValue) of a float given in halves: 3 is 1.5, 10 is 5.0
StrFloat(v) == ToString(v \div 2) \o (IF v % 2 = 0 THEN ".0" ELSE ".5")

\* query.replace(old, new, 1): the first occurrence only, if there is one
ReplaceFirst(q, old, new) ==
    IF \E i \in 1..Len(q) : q[i] = old
    THEN LET first == CHOOSE i \in 1..Len(q) :
                          q[i] = old /\ \A j \in 1..(i - 1) : q[j] # old
         IN  [q EXCEPT ![first] = new]
    ELSE q

\* query.replace(PREDICATE_TOKEN, "<= " + str(selectivityValue), 1)
SubstituteValue(q, selectivityValue) ==
    ReplaceFirst(q, PREDICATE_TOKEN, "<= " \o StrFloat(selectivityValue))

\* the iteration's last statement without its effect: query stays as it is
KeepQuery(q, orig) == q

\* "query = origQuery"
ResetQuery(q, orig) == orig

RECURSIVE FindSimilarLoop(_, _, _), FindSimilarLast(_, _, _)
\* the loop without its break: the position of the last plan similar to qep
FindSimilarLast(lst, qep, i) ==
    IF i > Len(lst) THEN 0
    ELSE LET later == FindSimilarLast(lst, qep, i + 1) IN
         IF later # 0 THEN later
         ELSE IF SimilarPlan(lst[i], qep) THEN i ELSE 0

\* the loop over lstAllQEPs: the 1-based position of the first plan similar
\* to qep, 0 when the loop ends with bAddQEPFlag still True
FindSimilarLoop(lst, qep, i) ==
    IF i > Len(lst) THEN 0
    ELSE IF SimilarPlan(lst[i], qep) THEN i
    ELSE FindSimilarLoop(lst, qep, i + 1)

\* the list index i recorded for a similar plan instead of the plan number
RecordQEPZeroBased(lst, indexes, qep, isFirst) ==
    IF isFirst
    THEN [lstAllQEPs |-> Append(lst, qep), planIndexes |-> Append(indexes, 1)]
    ELSE LET i == FindSimilarLoop(lst, qep, 1) IN
         IF i # 0
         THEN [lstAllQEPs |-> lst, planIndexes |-> Append(indexes, i - 1)]
         ELSE [lstAllQEPs |-> Append(lst, qep),
               planIndexes |-> Append(indexes, Len(lst) + 1)]

\* the plan appended whatever the loop over lstAllQEPs found
RecordQEPAlwaysNew(lst, indexes, qep, isFirst) ==
    [lstAllQEPs |-> Append(lst, qep), planIndexes |-> Append(indexes, Len(lst) + 1)]

\* what one iteration does with the plan it got: the new lstAllQEPs and
\* planIndexes
RecordQEP(lst, indexes, qep, isFirst) ==
    IF isFirst
    THEN [lstAllQEPs |-> Append(lst, qep), planIndexes |-> Append(indexes, 1)]
    ELSE LET i == FindSimilarLoop(lst, qep, 1) IN
         IF i # 0
         THEN [lstAllQEPs |-> lst, planIndexes |-> Append(indexes, i)]
         ELSE [lstAllQEPs |-> Append(lst, qep),
               planIndexes |-> Append(indexes, Len(lst) + 1)]

---------------------------------------------------------------------------
(* qep_processor.py: selectivity ranges and their explanation *)

\* _convert2DArray(lstOrigList, nElementsInList)
Convert2DArray(lstOrigList, nElementsInList) ==
    [r \in 1..((Len(lstOrigList) + nElementsInList - 1) \div nElementsInList) |->
        SubSeq(lstOrigList, (r - 1) * nElementsInList + 1,
               Min(r * nElementsInList, Len(lstOrigList)))]

RECURSIVE SelectivityTuples(_, _, _)
\* the two loops of _retrieveSelectivityRanges from cell (rowIndex, colIndex)
\* on: the tuples (plan, rowIndex, colIndex), indexes 0-based
SelectivityTuples(rows, rowIndex, colIndex) ==
    IF rowIndex >= Len(rows) THEN <<>>
    ELSE IF colIndex >= Len(rows[rowIndex + 1])
    THEN SelectivityTuples(rows, rowIndex + 1, 0)
    ELSE <<<<rows[rowIndex + 1][colIndex + 1], rowIndex, colIndex>>>>
         \o SelectivityTuples(rows, rowIndex, colIndex + 1)

RECURSIVE SortByFirst(_)
\* list.sort(key=lambda x: x[0]): stable, ascending in the first component
SortByFirst(items) ==
    IF Len(items) = 0 THEN <<>>
    ELSE LET least == CHOOSE k \in {items[i][1] : i \in 1..Len(items)} :
                          \A i \in 1..Len(items) : k <= items[i][1]
         IN  SelectSeq(items, LAMBDA x : x[1] = least)
             \o SortByFirst(SelectSeq(items, LAMBDA x : x[1] # least))

RECURSIVE SplitListOfTuplesByKey(_, _, _)
\* _splitListOfTuplesByKey(items): the dict as its list of entries in
\* insertion order, from item i on
SplitListOfTuplesByKey(items, i, result) ==
    IF i > Len(items) THEN result
    ELSE LET key == items[i][1] IN
         IF \E g \in 1..Len(result) : result[g].k = key
         THEN LET g == CHOOSE g \in 1..Len(result) : result[g].k = key
              IN  SplitListOfTuplesByKey(items, i + 1,
                      [result EXCEPT ![g].v = Append(@, items[i])])
         ELSE SplitListOfTuplesByKey(items, i + 1,
                  Append(result, [k |-> key, v |-> <<items[i]>>]))

\* tuple comparison of Python: lexicographic
TupleLess(a, b) ==
    \/ a[1] < b[1]
    \/ a[1] = b[1] /\ a[2] < b[2]
    \/ a[1] = b[1] /\ a[2] = b[2] /\ a[3] < b[3]

\* min(lst)
MinTuple(lst) ==
    lst[CHOOSE i \in 1..Len(lst) : \A j \in 1..Len(lst) : ~TupleLess(lst[j], lst[i])]

\* max(lst)
MaxTuple(lst) ==
    lst[CHOOSE i \in 1..Len(lst) : \A j \in 1..Len(lst) : ~TupleLess(lst[i], lst[j])]

\* the explanation of a one-attribute map read from the row bounds value[0]
OneDimensionBoundsOfRows(value) == value[1]

\* "use the second set of tuples since first tuples are empty": value[1]
OneDimensionBounds(value) == value[2]

\* the entries keyed by the group position index instead of index + 1
RetrieveSelectivityRangesKeyedFromZero(indexes) ==
    LET rows == Convert2DArray(indexes, RESOLUTION)
        lstSelectivityTuples == SortByFirst(SelectivityTuples(rows, 0, 0))
        temp == SplitListOfTuplesByKey(lstSelectivityTuples, 1, <<>>)
    IN  [g \in 1..Len(temp) |->
            [k |-> g - 1,
             v |-> <<<<MinTuple(temp[g].v)[2], MaxTuple(temp[g].v)[2]>>,
                     <<MinTuple(temp[g].v)[3], MaxTuple(temp[g].v)[3]>>>>]]

\* _retrieveSelectivityRanges(planIndexes): the dict as its list of entries,
\* each value ((min row, max row), (min column, max column))
RetrieveSelectivityRanges(indexes) ==
    LET rows == Convert2DArray(indexes, RESOLUTION)
        lstSelectivityTuples == SortByFirst(SelectivityTuples(rows, 0, 0))
        temp == SplitListOfTuplesByKey(lstSelectivityTuples, 1, <<>>)
    IN  [g \in 1..Len(temp) |->
            [k |-> g,
             v |-> <<<<MinTuple(temp[g].v)[2], MaxTuple(temp[g].v)[2]>>,
                     <<MinTuple(temp[g].v)[3], MaxTuple(temp[g].v)[3]>>>>]]

\* the format call for one attribute
ExplanationOneDimension(key, attribute, bounds) ==
    "For Plan " \o ToString(key) \o ", the selectivity range for " \o attribute
    \o " ranges from " \o ToString(bounds[1] * 10) \o " % to "
    \o ToString((bounds[2] + 1) * 10) \o " %\n"

\* the format call for two attributes
ExplanationTwoDimensions(key, attributes, value) ==
    "For Plan " \o ToString(key) \o ", the selectivity range for " \o attributes[1]
    \o " ranges from " \o ToString(value[1][1] * 10) \o " % to "
    \o ToString((value[1][2] + 1) * 10) \o " %, and " \o attributes[2]
    \o " ranges from " \o ToString(value[2][1] * 10) \o " % to "
    \o ToString((value[2][2] + 1) * 10) \o " %\n"

RECURSIVE ExplanationLoop(_, _, _)
\* generateFoundExplanation: the loop over dictSelectvityRanges.items()
ExplanationLoop(attributes, ranges, i) ==
    IF i > Len(ranges) THEN <<>>
    ELSE (IF Len(attributes) = 1
          THEN <<ExplanationOneDimension(ranges[i].k, attributes[1],
                                         OneDimensionBounds(ranges[i].v))>>
          ELSE IF Len(attributes) = 2
          THEN <<ExplanationTwoDimensions(ranges[i].k, attributes, ranges[i].v)>>
          ELSE <<>>)
         \o ExplanationLoop(attributes, ranges, i + 1)

---------------------------------------------------------------------------
(* get_predicates_conditions.py and _convertToQueryTemplate.  The typed     *)
(* query is "select * from lineitem where c1 and c2 ...": what sqlparse     *)
(* makes of its WHERE clause is the list of its comparisons, each with its  *)
(* operator and its two operands; an operand has its text and the kind of   *)
(* token sqlparse gives it                                                  *)

RET_ALL_QEPS == 1
RET_ONLY_ACTUAL_QEP == 2
RET_CONVERT_QUERY_ERR == 3
RET_CONVERT_QUERY_OK == 4

Operand(text, kind) == [text |-> text, kind |-> kind]
Comparison(left, op, right) == [left |-> left, op |-> op, right |-> right]

\* "string_to_keep": the values of the tokens of the comparison, in order
ClauseText(c) == c.left.text \o " " \o c.op \o " " \o c.right.text

\* the typed query as its text pieces
RECURSIVE WherePieces(_, _)
WherePieces(where, i) ==
    IF i > Len(where) THEN <<>>
    ELSE (IF i > 1 THEN <<" and ">> ELSE <<>>)
         \o <<ClauseText(where[i])>> \o WherePieces(where, i + 1)

QueryText(where) == <<"select * from lineitem where ">> \o WherePieces(where, 1)

comparisons_to_find == {"<", "<=", ">", ">=", "!="}

\* the identifier tokens of a comparison, in order
IdentifiersOf(c) ==
    (IF c.left.kind = "identifier" THEN <<c.left.text>> ELSE <<>>)
    \o (IF c.right.kind = "identifier" THEN <<c.right.text>> ELSE <<>>)

RECURSIVE get_tokens(_, _, _, _)
\* get_tokens on the WHERE clause, from comparison i on: the columns and the
\* clauses collected
get_tokens(where, i, columns_to_get, clauses_to_change) ==
    IF i > Len(where)
    THEN [columns_to_get |-> columns_to_get, clauses_to_change |-> clauses_to_change]
    ELSE IF where[i].op \in comparisons_to_find
    THEN get_tokens(where, i + 1, columns_to_get \o IdentifiersOf(where[i]),
                    Append(clauses_to_change, where[i]))
    ELSE get_tokens(where, i + 1, columns_to_get, clauses_to_change)

get_var_column(where) == get_tokens(where, 1, <<>>, <<>>)

\* float(re.sub('[^A-Za-z0-9.-]+', '', lstCondAndPred[1])) does not raise:
\* what follows the operator is a number, not a name or a quoted string
IsFloat(c) == c.right.kind = "number"

\* "value != lstCondAndPred[0].strip()" kept: every attribute of that name goes
RemoveAttribute(attributes, name) == SelectSeq(attributes, LAMBDA value : value # name)

RECURSIVE FilterClauses(_, _, _, _)
\* the loop over clauses_list (lines 207-216), from clause i on
FilterClauses(clauses_list, i, attributes, lstClausesToBeRemoved) ==
    IF i > Len(clauses_list)
    THEN [attributes |-> attributes, lstClausesToBeRemoved |-> lstClausesToBeRemoved]
    ELSE IF IsFloat(clauses_list[i])
    THEN FilterClauses(clauses_list, i + 1, attributes, lstClausesToBeRemoved)
    ELSE FilterClauses(clauses_list, i + 1,
                       RemoveAttribute(attributes, clauses_list[i].left.text),
                       lstClausesToBeRemoved \cup {ClauseText(clauses_list[i])})

\* attribute.split(".")[-1] on the names a query can hold
AfterLastDot(attribute) == IF attribute = "l.l_discount" THEN "l_discount" ELSE attribute

RECURSIVE ReplaceAll(_, _, _)
\* query.replace(old, new): every occurrence; new is a list of pieces
ReplaceAll(q, old, new) ==
    IF q = <<>> THEN <<>>
    ELSE (IF Head(q) = old THEN new ELSE <<Head(q)>>) \o ReplaceAll(Tail(q), old, new)

RECURSIVE ReplaceClauses(_, _, _, _)
\* the loop of lines 228-230 from clause i on: the template, or "IndexError"
\* when the clause has no attribute at its position
ReplaceClauses(q, clauses_list, attributes, i) ==
    IF i > Len(clauses_list) THEN [raised |-> "", query |-> q]
    ELSE IF i > Len(attributes) THEN [raised |-> "IndexError", query |-> q]
    ELSE ReplaceClauses(ReplaceAll(q, ClauseText(clauses_list[i]),
                                   <<attributes[i], PREDICATE_TOKEN>>),
                        clauses_list, attributes, i + 1)

\* "if (len(lstPredicateAttributes) == 0)"
NoPredicates(attributes) == Len(attributes) = 0

\* _convertToQueryTemplate(query): the status, the attributes, the template,
\* and the exception raised if one is
ConvertToQueryTemplate(where) ==
    LET extracted == get_var_column(where)
        filtered == FilterClauses(extracted.clauses_to_change, 1,
                                  extracted.columns_to_get, {})
        clauses_list == SelectSeq(extracted.clauses_to_change,
                            LAMBDA x : ClauseText(x) \notin filtered.lstClausesToBeRemoved)
        attributes == [j \in 1..Len(filtered.attributes) |->
                          AfterLastDot(filtered.attributes[j])]
        replaced == ReplaceClauses(QueryText(where), clauses_list, attributes, 1)
    IN  IF NoPredicates(attributes)
        THEN [raised |-> "", status |-> RET_CONVERT_QUERY_ERR,
              lstPredicateAttributes |-> <<>>, templateQuery |-> <<>>]
        ELSE IF replaced.raised # ""
        THEN [raised |-> replaced.raised, status |-> 0,
              lstPredicateAttributes |-> <<>>, templateQuery |-> <<>>]
        ELSE [raised |-> "", status |-> RET_CONVERT_QUERY_OK,
              lstPredicateAttributes |-> attributes, templateQuery |-> replaced.query]

---------------------------------------------------------------------------
(* qep_processor.py: the selectivity values of an attribute.  A histogram   *)
(* is the list of its bounds, whole numbers; a selectivity value is given   *)
(* in halves, as StrFloat reads it                                          *)

\* lst[::step]
EveryNth(lst, step) ==
    [j \in 1..((Len(lst) + step - 1) \div step) |-> lst[(j - 1) * step + 1]]

\* "((upperBound - lowerBound) * 0.5) + lowerBound", in halves
MidValue(lowerBound, upperBound) == (upperBound - lowerBound) + 2 * lowerBound

\* _readHistogram(histogram): selValues
ReadHistogram(lstHistogramValues) ==
    LET step == (100 \div RESOLUTION) + 1
        histogramValues == EveryNth(lstHistogramValues, step)
        histogramNextValues == EveryNth(lstHistogramValues, step)
    IN  [j \in 1..Len(histogramValues) |->
            MidValue(histogramValues[j], histogramNextValues[j])]

\* a third attribute taken as another attribute of the second dimension
DimensionOfAtMostTwo(i) == IF i = 0 THEN 1 ELSE 2

\* the branches of lines 266-274 on the loop index: the dimension the values
\* go to, 0 for the branch that calls quit()
DimensionOf(i) == IF i = 0 THEN 1 ELSE IF i = 1 THEN 2 ELSE 0

\* the three statistics calls of one iteration of _generatePredicateValues
StatisticsCalls(attribute) ==
    <<<<"findRelation", attribute>>, <<"getHistogram", attribute>>,
      <<"getCardinality", attribute>>>>

---------------------------------------------------------------------------
(* Values of the variables an entry point does not use *)

IdleAnnot == query_plan = JNone /\ name_counter = <<>> /\ runs = 0
IdleEquiv == lstAllQEPs = <<>> /\ actualQEP = JNone /\ ret = <<>>
IdleEnum ==
    /\ pc = "idle" /\ templateQuery = <<>> /\ query = <<>> /\ origQuery = <<>>
    /\ lstSelValsDimension01 = <<>> /\ lstSelValsDimension02 = NoVals
    /\ index = 0 /\ index2 = 0 /\ planIndexes = <<>> /\ sent = <<>>
    /\ lastQEP = JNone /\ engine = {}
IdleRange ==
    /\ lstPredicateAttributes = <<>> /\ selectivityMap = <<>>
    /\ dictSelectvityRanges = <<>> /\ lstSelectivityExplanations = <<>>
IdleRequest ==
    /\ entry_query = <<>> /\ pg_stats = <<>> /\ lookups = <<>>
    /\ processResult = <<>> /\ raised = "" /\ shown = ""

---------------------------------------------------------------------------
(* Annotation: visualize_query_plan called on a plan, repeatedly *)

MaxNodes == 4
MaxRuns == 2
AnnotCosts == {3, 12}

InitAnnot ==
    /\ mode = "annotate"
    /\ IdleRequest
    /\ \E n \in 1..MaxNodes : \E d \in DepthSeqs(n) :
         \E kind \in [1..n -> 1..2], cost \in [1..n -> AnnotCosts] :
            query_plan = QEP(BuildPlan(d, kind, cost, [i \in 1..n |-> 1], 1))
    /\ name_counter = <<>>
    /\ runs = 0
    /\ IdleEquiv
    /\ IdleEnum
    /\ IdleRange

\* visualize_query_plan(query_plan): annotates the first plan in place
VisualizeQueryPlan ==
    /\ mode = "annotate"
    /\ runs < MaxRuns
    /\ LET r == VisualizedPlan(query_plan, name_counter)
       IN  /\ query_plan' = r.query_plan
           /\ name_counter' = r.counter
    /\ runs' = runs + 1
    /\ UNCHANGED <<mode, reqVars, equivVars, enumVars, rangeVars>>

NextAnnot == VisualizeQueryPlan

SpecAnnot == InitAnnot /\ [][NextAnnot]_vars

---------------------------------------------------------------------------
(* Plan equivalence: compareActualQEP on small plans, given as the engine  *)
(* returns them or, as MainFrame.onExplainQuery passes them, after          *)
(* visualize_query_plan has annotated each of them                          *)

MaxChildren == 2
RootCosts == {9}

\* the scans the plans are made of
EquivScans ==
    {LeafPlan("Seq Scan", 1, 1), LeafPlan("Seq Scan", 2, 1), LeafPlan("Index Scan", 1, 1)}

\* a scan, or a join over up to n scans
SmallPlans(n) ==
    EquivScans
    \cup UNION {{InnerPlan(InnerKindOf[k], RootCost, 1, ch)
                   : k \in 1..2, RootCost \in RootCosts, ch \in [1..m -> EquivScans]}
                 : m \in 0..n}

InitEquiv ==
    /\ mode = "compare"
    /\ IdleRequest
    /\ \E a \in SmallPlans(MaxChildren), b \in SmallPlans(MaxChildren) :
         \/ /\ lstAllQEPs = <<QEP(a)>>
            /\ actualQEP = QEP(b)
         \/ /\ lstAllQEPs = <<VisualizedPlan(QEP(a), <<>>).query_plan>>
            /\ actualQEP = VisualizedPlan(QEP(b), <<>>).query_plan
    /\ ret = <<>>
    /\ IdleAnnot
    /\ IdleEnum
    /\ IdleRange

\* compareActualQEP(actualQEP, lstAllQEPs)
DoCompareActualQEP ==
    /\ mode = "compare"
    /\ ret = <<>>
    /\ ret' = CompareActualQEP(actualQEP, lstAllQEPs)
    /\ UNCHANGED <<mode, reqVars, annotVars, lstAllQEPs, actualQEP, enumVars, rangeVars>>

NextEquiv == DoCompareActualQEP

SpecEquiv == InitEquiv /\ [][NextEquiv]_vars

---------------------------------------------------------------------------
(* Plan equivalence on plans over a partitioned table, as the engine       *)
(* returns them and the enumeration compares them: the scan of the first   *)
(* partition, then scans that alternate between the two scan kinds         *)

MaxPartitions == 7

\* the scan of partition i (0-based) of the alternation
AlternatingScan(i, phase, flip) ==
    LET k == (phase + i) % 2
        b == (k + flip) % 2
    IN  LeafPlan(LeafKindOf[k + 1], 1 + b, 2 - b)

FirstScans ==
    {<<>>} \cup {<<LeafPlan("Seq Scan", c, r)>> : c \in {1, 2}, r \in {1, 2}}

PartitionedPlans(n) ==
    {InnerPlan("Append", RootCost, 1,
               h \o [i \in 1..n |-> AlternatingScan(i - 1, phase, flip)])
       : RootCost \in RootCosts, h \in FirstScans, phase \in 0..1, flip \in 0..1}

InitPartitioned ==
    /\ mode = "compare"
    /\ IdleRequest
    /\ \E n \in 0..MaxPartitions :
         \E a \in PartitionedPlans(n), b \in PartitionedPlans(n) :
            /\ lstAllQEPs = <<QEP(a)>>
            /\ actualQEP = QEP(b)
    /\ ret = <<>>
    /\ IdleAnnot
    /\ IdleEnum
    /\ IdleRange

SpecPartitioned == InitPartitioned /\ [][NextEquiv]_vars

---------------------------------------------------------------------------
(* Enumeration: _retrieveQEPs_OneDimension and _retrieveQEPs_TwoDimensions, *)
(* one statement group of the loop body at a time                           *)

MaxSel == 2
MaxTokens == 2

\* the entry points that run the enumeration loops
EnumerationModes == {"enumerate", "explain query"}

\* the template with k predicate tokens
TemplateWith(k) ==
    <<"select * from lineitem where ">>
    \o (IF k >= 1 THEN <<"l_quantity", PREDICATE_TOKEN>> ELSE <<>>)
    \o (IF k >= 2 THEN <<" and l_tax", PREDICATE_TOKEN>> ELSE <<>>)
    \o (IF k >= 3
        THEN <<" and l_orderkey in (select o_orderkey from orders where o_totalprice",
               PREDICATE_TOKEN, ")">>
        ELSE <<>>)

\* the values read from a histogram, in halves: 1.5, 5.0, 8.5, ...
SelValsOf(n, shift) == [i \in 1..n |-> 7 * i - 4 + shift]

\* the plans an engine answers with: scans of one table
EnginePlans ==
    {QEP(LeafPlan("Seq Scan", 1, 1)), QEP(LeafPlan("Seq Scan", 2, 1)),
     QEP(LeafPlan("Index Scan", 1, 1))}

\* or a join over a sequential scan, over an index scan, or over both
EngineJoinPlans ==
    {QEP(InnerPlan("Hash Join", 9, 1, <<LeafPlan("Seq Scan", 1, 1)>>)),
     QEP(InnerPlan("Hash Join", 9, 1, <<LeafPlan("Index Scan", 1, 1)>>)),
     QEP(InnerPlan("Hash Join", 9, 1,
                   <<LeafPlan("Seq Scan", 1, 1), LeafPlan("Index Scan", 1, 1)>>))}

InitEnum ==
    /\ mode = "enumerate"
    /\ IdleRequest
    /\ pc = "loop"
    /\ \E k \in 1..MaxTokens : templateQuery = TemplateWith(k)
    /\ query = templateQuery
    /\ origQuery = <<>>
    /\ \E n \in 1..MaxSel : lstSelValsDimension01 = SelValsOf(n, 0)
    /\ \/ lstSelValsDimension02 = NoVals
       \/ \E n \in 1..MaxSel : lstSelValsDimension02 = SomeVals(SelValsOf(n, 1))
    /\ index = 0
    /\ index2 = 0
    /\ planIndexes = <<>>
    /\ lstAllQEPs = <<>>
    /\ sent = <<>>
    /\ lastQEP = JNone
    /\ engine \in {EnginePlans, EngineJoinPlans}
    /\ actualQEP = JNone
    /\ ret = <<>>
    /\ IdleAnnot
    /\ IdleRange

\* "origQuery = query", then the one or two replacements of the token
Substitute ==
    /\ mode \in EnumerationModes
    /\ pc = "loop"
    /\ origQuery' = query
    /\ query' = IF lstSelValsDimension02.isNone
                THEN SubstituteValue(query, lstSelValsDimension01[index + 1])
                ELSE SubstituteValue(
                         SubstituteValue(query, lstSelValsDimension01[index + 1]),
                         lstSelValsDimension02.vals[index2 + 1])
    /\ pc' = "request"
    /\ UNCHANGED <<mode, reqVars, annotVars, equivVars, rangeVars, templateQuery, lstSelValsDimension01,
                   lstSelValsDimension02, index, index2, planIndexes, sent, lastQEP, engine>>

\* "qep = objCommunicator.getQEP(query)[0][0]" and the bookkeeping of the
\* plan: the engine answers with any of its plans
RequestQEP ==
    /\ mode \in EnumerationModes
    /\ pc = "request"
    /\ \E qep \in engine :
         LET r == RecordQEP(lstAllQEPs, planIndexes, qep, index = 0 /\ index2 = 0)
         IN  /\ lstAllQEPs' = r.lstAllQEPs
             /\ planIndexes' = r.planIndexes
             /\ lastQEP' = qep
    /\ sent' = Append(sent, query)
    /\ pc' = "reset"
    /\ UNCHANGED <<mode, reqVars, annotVars, actualQEP, ret, rangeVars, templateQuery, query, origQuery,
                   lstSelValsDimension01, lstSelValsDimension02, index, index2, engine>>

\* the inner loop not started again for the next value of the outer one
NextGridPointSameColumn(i, i2, vals2) ==
    IF vals2.isNone THEN <<i + 1, i2>>
    ELSE IF i2 + 1 < Len(vals2.vals) THEN <<i, i2 + 1>>
    ELSE <<i + 1, i2>>

\* the step of the for loops: the indexes of the next grid point, the inner
\* loop over lstSelValsDimension02 running through for each outer value
NextGridPoint(i, i2, vals2) ==
    IF vals2.isNone THEN <<i + 1, i2>>
    ELSE IF i2 + 1 < Len(vals2.vals) THEN <<i, i2 + 1>>
    ELSE <<i + 1, 0>>

\* "query = origQuery", then the step of the loops to the next grid point
\* or to the return statement
Reset ==
    /\ mode \in EnumerationModes
    /\ pc = "reset"
    /\ query' = ResetQuery(query, origQuery)
    /\ LET next == NextGridPoint(index, index2, lstSelValsDimension02) IN
       /\ index' = next[1]
       /\ index2' = next[2]
       /\ pc' = IF next[1] < Len(lstSelValsDimension01) THEN "loop" ELSE "done"
    /\ UNCHANGED <<mode, reqVars, annotVars, equivVars, rangeVars, templateQuery, origQuery,
                   lstSelValsDimension01, lstSelValsDimension02, planIndexes, sent, lastQEP, engine>>

NextEnum == Substitute \/ RequestQEP \/ Reset

SpecEnum == InitEnum /\ [][NextEnum]_vars

---------------------------------------------------------------------------
(* Explanation: generateFoundExplanation on the plan grid of an enumeration *)

MaxCells == 10
MaxPlans == 2

\* the grids an enumeration records: cell values 1..m with every number
\* first met after all smaller ones
PlanIndexGrids(n) ==
    {g \in [1..n -> 1..MaxPlans] :
        /\ g[1] = 1
        /\ \A i \in 2..n : \E j \in 1..(i - 1) : g[i] <= g[j] + 1}

AttributeLists == {<<"l_quantity">>, <<"l_quantity", "l_tax">>}

InitRange ==
    /\ mode = "explain"
    /\ IdleRequest
    /\ lstPredicateAttributes \in AttributeLists
    /\ \E n \in 1..MaxCells : selectivityMap \in PlanIndexGrids(n)
    /\ dictSelectvityRanges = <<>>
    /\ lstSelectivityExplanations = <<>>
    /\ IdleAnnot
    /\ IdleEquiv
    /\ IdleEnum

\* generateFoundExplanation(lstPredicateAttributes, selectivityMap)
GenerateFoundExplanation ==
    /\ mode = "explain"
    /\ dictSelectvityRanges = <<>>
    /\ dictSelectvityRanges' = RetrieveSelectivityRanges(selectivityMap)
    /\ lstSelectivityExplanations' =
           ExplanationLoop(lstPredicateAttributes, dictSelectvityRanges', 1)
    /\ UNCHANGED <<mode, reqVars, annotVars, equivVars, enumVars, lstPredicateAttributes,
                   selectivityMap>>

NextRange == GenerateFoundExplanation

SpecRange == InitRange /\ [][NextRange]_vars

---------------------------------------------------------------------------
(* Explanation of a plan grid of more than RESOLUTION cells, which          *)
(* _convert2DArray cuts into rows of RESOLUTION cells: in every row the     *)
(* plan switches from plan 1 to plan 2 at a threshold column                *)

MaxRows == 2

\* a row of n cells holding plan 1 in the columns below b, plan 2 from b on
StepRow(n, b) == [c \in 1..n |-> IF c <= b THEN 1 ELSE 2]

RECURSIVE Flatten(_, _)
\* the rows one after another, from row i on
Flatten(rows, i) == IF i > Len(rows) THEN <<>> ELSE rows[i] \o Flatten(rows, i + 1)

\* the grids of r rows: full rows, then a last row of 1..RESOLUTION cells;
\* the first cell holds plan 1
StepGrids(r) ==
    {Flatten([i \in 1..r |-> StepRow(IF i < r THEN RESOLUTION ELSE last, b[i])], 1)
       : last \in 1..RESOLUTION,
         b \in {t \in [1..r -> 0..RESOLUTION] : t[1] >= 1}}

InitRangeRows ==
    /\ mode = "explain"
    /\ IdleRequest
    /\ lstPredicateAttributes \in AttributeLists
    /\ \E r \in 2..MaxRows : selectivityMap \in StepGrids(r)
    /\ dictSelectvityRanges = <<>>
    /\ lstSelectivityExplanations = <<>>
    /\ IdleAnnot
    /\ IdleEquiv
    /\ IdleEnum

SpecRangeRows == InitRangeRows /\ [][NextRange]_vars

---------------------------------------------------------------------------
(* A request: LandingPage.onExplainQuery from the click to the text it     *)
(* displays, with processQuery, the statistics calls and the plan requests  *)
(* it makes.  The database is connected; a plan request can fail, and       *)
(* getQEP then prints the error and returns None.  pc is the position:      *)
(* "clicked", "sample", the enumeration's "loop", "request", "reset" and    *)
(* "done", "fallback", "actual", then "mainloop" when the callback has      *)
(* ended (with its exception in raised, if one ended it) or "exited" when   *)
(* the interpreter has exited                                               *)

MaxClauses == 3
MaxBounds == 12

\* the comparisons a WHERE clause is made of
Comparisons ==
    {Comparison(Operand("l_quantity", "identifier"), "<", Operand("30", "number")),
     Comparison(Operand("l_tax", "identifier"), "<=", Operand("5", "number")),
     Comparison(Operand("l.l_discount", "identifier"), ">", Operand("3", "number")),
     Comparison(Operand("l_shipdate", "identifier"), "<",
                Operand("'1995-01-01'", "string")),
     Comparison(Operand("l_quantity", "identifier"), "<",
                Operand("l_tax", "identifier"))}

\* the typed queries: one to MaxClauses comparisons joined by "and"
Queries == UNION {[1..n -> Comparisons] : n \in 1..MaxClauses}

\* the histogram bounds 0, 10, 20, ... of a column: 11 of them or MaxBounds
Histograms == {[i \in 1..n |-> 10 * (i - 1)] : n \in {11, MaxBounds}}

szErrorMessage ==
    "Error parsing query for predicates! Running actual query...\nView the actual QEP in the Plans page\n"

InitRequest ==
    /\ mode = "explain query"
    /\ pc = "clicked"
    /\ entry_query \in Queries
    /\ pg_stats \in Histograms
    /\ lookups = <<>>
    /\ processResult = <<>>
    /\ raised = ""
    /\ shown = ""
    /\ templateQuery = <<>> /\ query = <<>> /\ origQuery = <<>>
    /\ lstSelValsDimension01 = <<>> /\ lstSelValsDimension02 = SomeVals(<<>>)
    /\ index = 0 /\ index2 = 0 /\ planIndexes = <<>> /\ sent = <<>>
    /\ lastQEP = JNone
    /\ engine = EnginePlans
    /\ IdleAnnot
    /\ IdleEquiv
    /\ IdleRange

\* processQuery, lines 55-63: the conversion to a template
ConvertQuery ==
    /\ mode = "explain query"
    /\ pc = "clicked"
    /\ LET converted == ConvertToQueryTemplate(entry_query) IN
       IF converted.raised # ""
       THEN /\ raised' = converted.raised
            /\ pc' = "mainloop"
            /\ UNCHANGED <<processResult, lstPredicateAttributes, templateQuery>>
       ELSE IF converted.status = RET_CONVERT_QUERY_ERR
       THEN /\ processResult' = <<RET_CONVERT_QUERY_ERR>>
            /\ pc' = "fallback"
            /\ UNCHANGED <<raised, lstPredicateAttributes, templateQuery>>
       ELSE /\ lstPredicateAttributes' = converted.lstPredicateAttributes
            /\ templateQuery' = converted.templateQuery
            /\ pc' = "sample"
            /\ UNCHANGED <<raised, processResult>>
    /\ UNCHANGED <<mode, annotVars, equivVars, query, origQuery, lstSelValsDimension01,
                   lstSelValsDimension02, index, index2, planIndexes, sent,
                   selectivityMap, dictSelectvityRanges, lstSelectivityExplanations,
                   entry_query, pg_stats, lookups, shown, lastQEP, engine>>

\* _generatePredicateValues, one iteration of its loop: the statistics calls
\* for the attribute, then the values go to its dimension, or quit()
SamplePredicate ==
    /\ mode = "explain query"
    /\ pc = "sample"
    /\ index < Len(lstPredicateAttributes)
    /\ lookups' = lookups \o StatisticsCalls(lstPredicateAttributes[index + 1])
    /\ LET selVals == ReadHistogram(pg_stats) IN
       IF DimensionOf(index) = 1
       THEN /\ lstSelValsDimension01' = lstSelValsDimension01 \o selVals
            /\ index' = index + 1
            /\ UNCHANGED <<lstSelValsDimension02, raised, pc>>
       ELSE IF DimensionOf(index) = 2
       THEN /\ lstSelValsDimension02' = SomeVals(lstSelValsDimension02.vals \o selVals)
            /\ index' = index + 1
            /\ UNCHANGED <<lstSelValsDimension01, raised, pc>>
       ELSE /\ raised' = "SystemExit"
            /\ pc' = "exited"
            /\ UNCHANGED <<lstSelValsDimension01, lstSelValsDimension02, index>>
    /\ UNCHANGED <<mode, annotVars, equivVars, rangeVars, templateQuery, query, origQuery,
                   index2, planIndexes, sent, entry_query, pg_stats, processResult,
                   shown, lastQEP, engine>>

\* _generatePredicateValues returns, an empty second list as None, and
\* processQuery enters _retrieveQEPs_OneDimension or _retrieveQEPs_TwoDimensions
SampleReturns ==
    /\ mode = "explain query"
    /\ pc = "sample"
    /\ index = Len(lstPredicateAttributes)
    /\ lstSelValsDimension02' = IF Len(lstSelValsDimension02.vals) = 0
                                THEN NoVals ELSE lstSelValsDimension02
    /\ query' = templateQuery
    /\ index' = 0
    /\ pc' = IF Len(lstSelValsDimension01) = 0 THEN "done" ELSE "loop"
    /\ UNCHANGED <<mode, annotVars, equivVars, rangeVars, reqVars, templateQuery, origQuery,
                   lstSelValsDimension01, index2, planIndexes, sent, lastQEP, engine>>

\* the failure passed over: the loop goes on to the next grid point
FailedRequestSkipped == [raised |-> "", pc |-> "reset"]

\* what "getQEP(query)[0][0]" does when getQEP has returned None: the
\* TypeError leaves the loop, processQuery and the callback
FailedRequest == [raised |-> "TypeError", pc |-> "mainloop"]

\* "objCommunicator.getQEP(query)[0][0]" when the engine fails the request:
\* getQEP prints the error and returns None, and the subscript raises
RequestQEPFails ==
    /\ mode = "explain query"
    /\ pc = "request"
    /\ sent' = Append(sent, query)
    /\ raised' = FailedRequest.raised
    /\ pc' = FailedRequest.pc
    /\ UNCHANGED <<mode, annotVars, equivVars, rangeVars, templateQuery, query, origQuery,
                   lstSelValsDimension01, lstSelValsDimension02, index, index2,
                   planIndexes, entry_query, pg_stats, lookups, processResult, shown, lastQEP, engine>>

RECURSIVE VisualizeAll(_, _)
\* the loop of lines 128-135: every plan found is annotated in place
VisualizeAll(lst, i) ==
    IF i > Len(lst) THEN lst
    ELSE VisualizeAll([lst EXCEPT ![i] = VisualizedPlan(lst[i], <<>>).query_plan], i + 1)

\* processQuery returns RET_ALL_QEPS; onExplainQuery lines 117-135
ShowPlans ==
    /\ mode = "explain query"
    /\ pc = "done"
    /\ processResult' = <<RET_ALL_QEPS>>
    /\ selectivityMap' = planIndexes
    /\ lstAllQEPs' = VisualizeAll(lstAllQEPs, 1)
    /\ pc' = "actual"
    /\ UNCHANGED <<mode, annotVars, actualQEP, ret, templateQuery, query, origQuery,
                   lstSelValsDimension01, lstSelValsDimension02, index, index2,
                   planIndexes, sent, lstPredicateAttributes, dictSelectvityRanges,
                   lstSelectivityExplanations, entry_query, pg_stats, lookups, raised,
                   shown, lastQEP, engine>>

RECURSIVE JoinStrings(_, _)
\* "explanationString += string" for every string from i on
JoinStrings(strings, i) ==
    IF i > Len(strings) THEN "" ELSE strings[i] \o JoinStrings(strings, i + 1)

\* the triple-quoted string of lines 156-159, with its two line breaks, the
\* blank before each and the indentation of 20 blanks after each
szNotFoundMessage ==
    LET szIndentation == "                    " IN
    "A different plan is seen because the DBMS may have considered other plans with different selectivity values \n"
    \o szIndentation \o "which result in lower cost for the plan. \n"
    \o szIndentation

\* the text of lines 122-161
ExplanationString(count, found, explanations) ==
    "Number of QEPs found: " \o ToString(count) \o "\n"
    \o (IF found[1] = RET_QEP_FOUND
        THEN JoinStrings(explanations, 1)
             \o "The selectivity range of the query is closest to Plan "
             \o ToString(found[2]) \o ".\n"
        ELSE szNotFoundMessage)

\* getActualQEP(query, Communicator) and what follows it: lines 110-116
\* after a conversion error, lines 137-163 otherwise
RequestActualQEP ==
    /\ mode = "explain query"
    /\ pc \in {"fallback", "actual"}
    /\ sent' = Append(sent, QueryText(entry_query))
    /\ pc' = "mainloop"
    /\ \/ /\ raised' = "TypeError"
          /\ UNCHANGED <<actualQEP, ret, dictSelectvityRanges,
                         lstSelectivityExplanations, shown>>
       \/ \E qep \in engine :
            /\ actualQEP' = VisualizedPlan(qep, <<>>).query_plan
            /\ raised' = raised
            /\ IF pc = "fallback"
               THEN /\ shown' = szErrorMessage
                    /\ UNCHANGED <<ret, dictSelectvityRanges, lstSelectivityExplanations>>
               ELSE /\ ret' = CompareActualQEP(actualQEP', lstAllQEPs)
                    /\ IF ret'[1] = RET_QEP_FOUND
                       THEN /\ dictSelectvityRanges' =
                                   RetrieveSelectivityRanges(selectivityMap)
                            /\ lstSelectivityExplanations' =
                                   ExplanationLoop(lstPredicateAttributes,
                                                   dictSelectvityRanges', 1)
                       ELSE UNCHANGED <<dictSelectvityRanges, lstSelectivityExplanations>>
                    /\ shown' = ExplanationString(Len(lstAllQEPs), ret',
                                                  lstSelectivityExplanations')
    /\ UNCHANGED <<mode, annotVars, lstAllQEPs, templateQuery, query, origQuery,
                   lstSelValsDimension01, lstSelValsDimension02, index, index2,
                   planIndexes, lstPredicateAttributes, selectivityMap, entry_query,
                   pg_stats, lookups, processResult, lastQEP, engine>>

\* the next click on "Explain Query": the text typed is still in the box
NextClick ==
    /\ mode = "explain query"
    /\ pc = "mainloop"
    /\ pc' = "clicked"
    /\ entry_query' = entry_query
    /\ lookups' = <<>>
    /\ processResult' = <<>>
    /\ raised' = ""
    /\ shown' = ""
    /\ templateQuery' = <<>> /\ query' = <<>> /\ origQuery' = <<>>
    /\ lstSelValsDimension01' = <<>> /\ lstSelValsDimension02' = SomeVals(<<>>)
    /\ index' = 0 /\ index2' = 0 /\ planIndexes' = <<>> /\ sent' = <<>>
    /\ lastQEP' = JNone
    /\ engine' = engine
    /\ lstAllQEPs' = <<>> /\ actualQEP' = JNone /\ ret' = <<>>
    /\ lstPredicateAttributes' = <<>> /\ selectivityMap' = <<>>
    /\ dictSelectvityRanges' = <<>> /\ lstSelectivityExplanations' = <<>>
    /\ UNCHANGED <<mode, annotVars, pg_stats>>

NextRequest ==
    \/ ConvertQuery
    \/ SamplePredicate
    \/ SampleReturns
    \/ Substitute
    \/ RequestQEP
    \/ RequestQEPFails
    \/ Reset
    \/ ShowPlans
    \/ RequestActualQEP
    \/ NextClick

SpecRequest == InitRequest /\ [][NextRequest]_vars

---------------------------------------------------------------------------
(* Replay: compareActualQEP on the distinct plans an enumeration has found, *)
(* as qep_processor returns them or, as MainFrame.onExplainQuery passes     *)
(* them, after visualize_query_plan has annotated each of them              *)

MaxReceived == 3

\* the plans the engine answers with during the enumeration and for the
\* query typed in
ReplayPlans == EnginePlans \cup EngineJoinPlans

RECURSIVE RecordAll(_, _, _)
\* the loop body of _retrieveQEPs_* run on the plans received, from the
\* i-th on
RecordAll(received, i, r) ==
    IF i > Len(received) THEN r
    ELSE RecordAll(received, i + 1,
                   RecordQEP(r.lstAllQEPs, r.planIndexes, received[i], i = 1))

\* lstAllQEPs after an enumeration that received these plans
EnumeratedPlans(received) ==
    RecordAll(received, 1, [lstAllQEPs |-> <<>>, planIndexes |-> <<>>]).lstAllQEPs

InitReplay ==
    /\ mode = "compare"
    /\ IdleRequest
    /\ \E n \in 1..MaxReceived :
         \E received \in [1..n -> ReplayPlans], actual \in ReplayPlans :
            \/ /\ lstAllQEPs = EnumeratedPlans(received)
               /\ actualQEP = actual
            \/ /\ lstAllQEPs = VisualizeAll(EnumeratedPlans(received), 1)
               /\ actualQEP = VisualizedPlan(actual, <<>>).query_plan
    /\ ret = <<>>
    /\ IdleAnnot
    /\ IdleEnum
    /\ IdleRange

SpecReplay == InitReplay /\ [][NextEquiv]_vars

---------------------------------------------------------------------------
(* Reading plans, for the properties below *)

KindOf(plan) == Get(plan, K_NodeType).s
TotalCostOf(plan) == Get(plan, K_TotalCost).n
SubPlans(plan) == IF HasKey(plan, K_Plans) THEN Get(plan, K_Plans).items ELSE <<>>
Abs(x) == IF x >= 0 THEN x ELSE -x
Range(f) == {f[i] : i \in DOMAIN f}
RemoveAt(xs, j) == [i \in 1..(Len(xs) - 1) |-> IF i < j THEN xs[i] ELSE xs[i + 1]]

RECURSIVE NodesOf(_), NodesOfAll(_, _), SumOver(_, _, _)
\* every node of a plan, parents before children, children left to right
NodesOf(plan) == <<plan>> \o NodesOfAll(SubPlans(plan), 1)
NodesOfAll(plans, i) ==
    IF i > Len(plans) THEN <<>> ELSE NodesOf(plans[i]) \o NodesOfAll(plans, i + 1)

\* the sum of Op(xs[k]) for k from i on
SumOver(Op(_), xs, i) ==
    IF i > Len(xs) THEN 0 ELSE Op(xs[i]) + SumOver(Op, xs, i + 1)

ExistingPlan == FirstPlan(lstAllQEPs[1])
ActualPlan == FirstPlan(actualQEP)
Compared == mode = "compare" /\ ret # <<>>

RECURSIVE KindDiffersAtMatchingPath(_, _), SameButCostAndRows(_, _)
\* some node present in both plans at the same path has another operator kind
KindDiffersAtMatchingPath(p, q) ==
    \/ KindOf(p) # KindOf(q)
    \/ \E i \in 1..Min(Len(SubPlans(p)), Len(SubPlans(q))) :
          KindDiffersAtMatchingPath(SubPlans(p)[i], SubPlans(q)[i])

\* q is p with one sub-plan inserted into the children list of the root
SubPlanInserted(p, q) ==
    /\ HasKey(p, K_Plans) /\ HasKey(q, K_Plans)
    /\ Len(SubPlans(q)) = Len(SubPlans(p)) + 1
    /\ \E j \in 1..Len(SubPlans(q)) :
          Put(q, K_Plans, JList(RemoveAt(SubPlans(q), j))) = p

\* the same tree shape, the same operator kind and relation at every node:
\* only costs and row counts may differ
SameButCostAndRows(p, q) ==
    /\ KindOf(p) = KindOf(q)
    /\ HasKey(p, K_Plans) = HasKey(q, K_Plans)
    /\ HasKey(p, K_RelationName) = HasKey(q, K_RelationName)
    /\ Get(p, K_RelationName) = Get(q, K_RelationName)
    /\ Len(SubPlans(p)) = Len(SubPlans(q))
    /\ \A i \in 1..Len(SubPlans(p)) : SameButCostAndRows(SubPlans(p)[i], SubPlans(q)[i])

---------------------------------------------------------------------------
(* Plan equivalence: C1 to C4 *)

\* C1: two plans are judged non-equivalent whenever (a) a node at a matching
\* path has another operator kind, (b) the second plan has a sub-plan the
\* first lacks, or (c) the first plan has a sub-plan the second lacks.
C1_KindChangeIsNonEquivalent ==
    Compared =>
        ((\/ KindDiffersAtMatchingPath(ExistingPlan, ActualPlan)
          \/ SubPlanInserted(ExistingPlan, ActualPlan)
          \/ SubPlanInserted(ActualPlan, ExistingPlan))
         => ret[1] = RET_QEP_NOT_FOUND)

\* C2: two plans of the same shape and the same operator kinds that differ
\* only in costs and row counts are judged equivalent.
C2_CostOnlyIsEquivalent ==
    (Compared /\ SameButCostAndRows(ExistingPlan, ActualPlan))
        => ret = <<RET_QEP_FOUND, 1>>

\* C3: plan equivalence is reflexive: comparing a plan with a list holding
\* that same plan returns found, plan number 1.
C3_Reflexive ==
    (Compared /\ actualQEP = lstAllQEPs[1]) => ret = <<RET_QEP_FOUND, 1>>

\* C3 witness: a join over two scans has been compared with itself.
C3_Witness ==
    /\ Compared
    /\ actualQEP = lstAllQEPs[1]
    /\ Len(SubPlans(ActualPlan)) = 2

\* C4: plan equivalence is symmetric: the verdict from diff(A, B) is the
\* verdict from diff(B, A).
C4_Symmetric ==
    Compared =>
        (SimilarPlan(lstAllQEPs[1], actualQEP) <=> SimilarPlan(actualQEP, lstAllQEPs[1]))

---------------------------------------------------------------------------
(* Annotation: C5 to C8 *)

Annotated == mode = "annotate" /\ runs >= 1
AnnotatedNodes == NodesOf(FirstPlan(query_plan))
OwnCostOf(plan) == Get(plan, K_cost).n
RoundedTotalOf(plan) == Cost(TotalCostOf(plan))
ChildrenTotal(plan) == SumOver(RoundedTotalOf, SubPlans(plan), 1)

\* C5 as claimed: for every node, its own cost plus the own costs of its
\* direct children is its total cost, within 0.01.
C5_OwnCostsSumToTotal ==
    Annotated =>
        LET nodes == AnnotatedNodes IN
        \A i \in 1..Len(nodes) :
            LET P == nodes[i] IN
            Abs(OwnCostOf(P) + SumOver(OwnCostOf, SubPlans(P), 1) - TotalCostOf(P))
                <= CostUnitsPerCent

\* C5 as amended: for every node, its own cost plus the total costs of its
\* direct children (each rounded to two decimals) is its total cost, within
\* 0.01, when the children's totals do not exceed it; otherwise its own
\* cost is 0.
C5_OwnCostPlusChildrenTotals ==
    Annotated =>
        LET nodes == AnnotatedNodes IN
        \A i \in 1..Len(nodes) :
            LET P == nodes[i]
                children_total == ChildrenTotal(P)
            IN  IF children_total <= TotalCostOf(P)
                THEN Abs(OwnCostOf(P) + children_total - TotalCostOf(P))
                         <= CostUnitsPerCent
                ELSE OwnCostOf(P) = 0

\* C5 witness: an annotated plan three levels deep whose root keeps a
\* positive own cost above its child's total.
C5_Witness ==
    /\ Annotated
    /\ LET P == FirstPlan(query_plan) IN
          /\ Len(SubPlans(P)) = 1
          /\ Len(SubPlans(SubPlans(P)[1])) = 1
          /\ OwnCostOf(P) > 0
          /\ TotalCostOf(SubPlans(SubPlans(P)[1])[1]) > 0

\* C6: after annotation every node's own cost is at least 0.
C6_OwnCostNonNegative ==
    Annotated =>
        LET nodes == AnnotatedNodes IN
        \A i \in 1..Len(nodes) : OwnCostOf(nodes[i]) >= 0

\* C6 witness: an annotated node whose children's totals exceed its total.
C6_Witness ==
    /\ Annotated
    /\ LET nodes == AnnotatedNodes IN
       \E i \in 1..Len(nodes) : ChildrenTotal(nodes[i]) > TotalCostOf(nodes[i])

\* C7: after annotation no two distinct nodes carry the same id.
C7_IdsDistinct ==
    Annotated =>
        LET nodes == AnnotatedNodes
            ids == [i \in 1..Len(nodes) |-> Get(nodes[i], K_id).s]
        IN  \A i, j \in 1..Len(ids) : i # j => ids[i] # ids[j]

\* C7 witness: an annotated plan in which one operator kind occurs in two
\* different subtrees of the root.
C7_Witness ==
    /\ Annotated
    /\ LET ch == SubPlans(FirstPlan(query_plan)) IN
          /\ Len(ch) = 2
          /\ \E p \in Range(NodesOf(ch[1])), q \in Range(NodesOf(ch[2])) :
                KindOf(p) = KindOf(q)

\* C8: annotating an already annotated plan again changes no id and no own
\* cost: the plan after the run is the plan before it.
C8_Idempotent ==
    [][(mode = "annotate" /\ runs >= 1) => query_plan' = query_plan]_vars

\* C8 witness: a plan with a repeated operator kind has been annotated twice.
C8_Witness ==
    /\ mode = "annotate"
    /\ runs = 2
    /\ LET nodes == AnnotatedNodes IN
       \E i, j \in 1..Len(nodes) : i # j /\ KindOf(nodes[i]) = KindOf(nodes[j])

---------------------------------------------------------------------------
(* Enumeration: C9 *)

\* some piece of the query is a substituted value
HoldsSubstitutedText(q) == \E i \in 1..Len(q) : q[i] \notin Range(templateQuery)

\* C9: at the start of every loop iteration and after the whole enumeration
\* the local query is the template passed in; text substituted for a token
\* is in it only between the substitution and the reset of one iteration.
C9_TemplatePreserved ==
    mode = "enumerate" =>
        /\ pc \in {"loop", "done"} => query = templateQuery
        /\ HoldsSubstitutedText(query) => pc \in {"request", "reset"}

\* C9 witness: a two-attribute enumeration has ended after more than one
\* iteration.
C9_Witness ==
    /\ mode = "enumerate"
    /\ pc = "done"
    /\ ~lstSelValsDimension02.isNone
    /\ Len(sent) >= 2
    /\ \A i \in 1..Len(sent) : HoldsSubstitutedText(sent[i])

---------------------------------------------------------------------------
(* Explanation: C10 *)

Explained == mode = "explain" /\ dictSelectvityRanges # <<>>
PlansOfMap == Range(selectivityMap)
\* the 0-based columns of a single-row map that hold plan k
ColumnsOf(k) == {c \in 0..(Len(selectivityMap) - 1) : selectivityMap[c + 1] = k}
SmallestOf(S) == CHOOSE x \in S : \A y \in S : x <= y
LargestOf(S) == CHOOSE x \in S : \A y \in S : x >= y

\* C10: for one attribute and a map of at most RESOLUTION cells the
\* explanation has one line per plan k, in the order of k, giving the range
\* from (smallest column holding k) * 10 to (largest column holding k + 1) * 10;
\* cells 0-3 = plan 1 and cells 4-9 = plan 2 give 0 % to 40 % and 40 % to 100 %.
C10_OneDimensionRanges ==
    (Explained /\ Len(lstPredicateAttributes) = 1 /\ Len(selectivityMap) <= RESOLUTION)
        => /\ Len(lstSelectivityExplanations) = Cardinality(PlansOfMap)
           /\ \A k \in PlansOfMap :
                 lstSelectivityExplanations[k] =
                     "For Plan " \o ToString(k) \o ", the selectivity range for "
                     \o lstPredicateAttributes[1] \o " ranges from "
                     \o ToString(SmallestOf(ColumnsOf(k)) * 10) \o " % to "
                     \o ToString((LargestOf(ColumnsOf(k)) + 1) * 10) \o " %\n"
           /\ selectivityMap = <<1, 1, 1, 1, 2, 2, 2, 2, 2, 2>>
                 => lstSelectivityExplanations =
                        <<"For Plan 1, the selectivity range for l_quantity ranges from 0 % to 40 %\n",
                          "For Plan 2, the selectivity range for l_quantity ranges from 40 % to 100 %\n">>

\* C10 witness: the map with cells 0-3 = plan 1 and cells 4-9 = plan 2 has
\* been explained for one attribute.
C10_Witness ==
    /\ Explained
    /\ Len(lstPredicateAttributes) = 1
    /\ selectivityMap = <<1, 1, 1, 1, 2, 2, 2, 2, 2, 2>>
    /\ Len(lstSelectivityExplanations) = 2

---------------------------------------------------------------------------
(* Explanation: C11 *)

\* the cells <<row, column>> (0-based, rows of RESOLUTION cells) holding plan k
CellsOf(k) ==
    {<<(i - 1) \div RESOLUTION, (i - 1) % RESOLUTION>> :
        i \in {j \in 1..Len(selectivityMap) : selectivityMap[j] = k}}

\* C11: for every plan k the ranges are the bounding box of the cells of k:
\* ((min row, max row), (min column, max column)), each minimum and maximum
\* taken on its own over all cells of k, so that the first column bound is
\* at most the second.
C11_BoundingBox ==
    Explained =>
        /\ Len(dictSelectvityRanges) = Cardinality(PlansOfMap)
        /\ \A k \in PlansOfMap :
              LET cells == CellsOf(k)
                  rowsOfK == {c[1] : c \in cells}
                  colsOfK == {c[2] : c \in cells}
                  value == dictSelectvityRanges[k].v
              IN  /\ dictSelectvityRanges[k].k = k
                  /\ value[1] = <<SmallestOf(rowsOfK), LargestOf(rowsOfK)>>
                  /\ value[2] = <<SmallestOf(colsOfK), LargestOf(colsOfK)>>
                  /\ value[2][1] <= value[2][2]

---------------------------------------------------------------------------
(* Requests: C12 to C16 *)

\* _generatePredicateValues has returned to processQuery
Sampled ==
    mode = "explain query" /\ pc \in {"loop", "request", "reset", "done", "actual"}

\* the number of grid points of the request
GridSize ==
    IF lstSelValsDimension02.isNone THEN Len(lstSelValsDimension01)
    ELSE Len(lstSelValsDimension01) * Len(lstSelValsDimension02.vals)

\* C12: for every histogram the sampler returns exactly RESOLUTION values
\* per attribute, so that the plan grid of a one-attribute query has
\* RESOLUTION entries and at most RESOLUTION distinct plans are found.
C12_ResolutionValuesPerAttribute ==
    Sampled =>
        /\ Len(lstSelValsDimension01) = RESOLUTION
        /\ ~lstSelValsDimension02.isNone =>
               Len(lstSelValsDimension02.vals) = RESOLUTION
        /\ (pc \in {"done", "actual"} /\ lstSelValsDimension02.isNone) =>
               /\ Len(planIndexes) = RESOLUTION
               /\ Len(lstAllQEPs) <= RESOLUTION

\* the comparisons of the typed query with a number on the right-hand side
NumericClauses == SelectSeq(entry_query, IsFloat)

\* the conversion has been done for this click
Converted == mode = "explain query" /\ pc # "clicked"

\* C13: when no numeric predicate survives the filtering (no comparison of
\* the typed query has a number on its right-hand side), processQuery
\* returns RET_CONVERT_QUERY_ERR with no statistics call and no plan request
\* made, and onExplainQuery then requests one plan only, that of the query
\* as typed, and shows the warning text with it.
C13_ConversionErrorFallsBack ==
    (Converted /\ NumericClauses = <<>>) =>
        /\ processResult = <<RET_CONVERT_QUERY_ERR>>
        /\ lookups = <<>>
        /\ lstAllQEPs = <<>> /\ planIndexes = <<>>
        /\ pc \in {"fallback", "mainloop"}
        /\ pc = "fallback" => sent = <<>>
        /\ pc = "mainloop" =>
              /\ sent = <<QueryText(entry_query)>>
              /\ raised = "" =>
                    /\ shown = szErrorMessage
                    /\ actualQEP # JNone
                    /\ HasKey(FirstPlan(actualQEP), K_id)

\* C14: with three or more predicate attributes no plan request is made:
\* the loop over the attributes ends the request before the enumeration.
C14_NoPlanRequestWithThreeAttributes ==
    (Converted /\ Len(lstPredicateAttributes) > 2) =>
        /\ sent = <<>>
        /\ pc \in {"sample", "exited"}

\* C14 witness: the third attribute has been met and nothing was requested.
C14_Witness ==
    /\ Converted
    /\ Len(lstPredicateAttributes) > 2
    /\ raised = "SystemExit"
    /\ sent = <<>>

\* C15: a query of more than two predicate attributes ends its own request
\* only: the process goes on and can take the next request.
C15_ProcessSurvivesTooManyPredicates ==
    (Converted /\ Len(lstPredicateAttributes) > 2) => pc # "exited"

\* C16: a plan request the engine fails ends processQuery there: it is the
\* last request of the enumeration, every request before it was answered
\* and recorded once, and RET_ALL_QEPS is returned only with a plan recorded
\* for every grid point.
C16_FailureEndsEnumeration ==
    mode = "explain query" =>
        /\ (pc = "mainloop" /\ raised = "TypeError" /\ processResult = <<>>) =>
              /\ Len(sent) = Len(planIndexes) + 1
              /\ Len(sent) <= GridSize
              /\ sent[Len(sent)] = query
        /\ processResult = <<RET_ALL_QEPS>> =>
              /\ Len(planIndexes) = GridSize
              /\ pc = "actual" => Len(sent) = GridSize

\* C16 witness: a request failed after an answered one, with grid points
\* left that were never requested.
C16_Witness ==
    /\ mode = "explain query"
    /\ pc = "mainloop"
    /\ raised = "TypeError"
    /\ processResult = <<>>
    /\ Len(planIndexes) >= 1
    /\ Len(sent) < GridSize

---------------------------------------------------------------------------
(* Enumeration: C17 to C20 *)

\* C17: the plan of the first grid point is appended and the point gets
\* index 1; the plan of a later point gets the smallest index of a member
\* it is equivalent to, and only if there is none is it appended, the point
\* getting the new size.
C17_FirstMatchAssignment ==
    [][(mode = "enumerate" /\ pc = "request") =>
         LET matching == {i \in 1..Len(lstAllQEPs) :
                             SimilarPlan(lstAllQEPs[i], lastQEP')}
         IN  IF planIndexes = <<>>
             THEN /\ lstAllQEPs' = <<lastQEP'>>
                  /\ planIndexes' = <<1>>
             ELSE IF matching # {}
             THEN /\ lstAllQEPs' = lstAllQEPs
                  /\ planIndexes' = Append(planIndexes, SmallestOf(matching))
             ELSE /\ lstAllQEPs' = Append(lstAllQEPs, lastQEP')
                  /\ planIndexes' = Append(planIndexes, Len(lstAllQEPs) + 1)]_vars

\* C17 witness: the plan just received is equivalent to the first two
\* members and its point got index 1.
C17_Witness ==
    /\ mode = "enumerate"
    /\ pc = "reset"
    /\ Len(lstAllQEPs) >= 2
    /\ SimilarPlan(lstAllQEPs[1], lastQEP)
    /\ SimilarPlan(lstAllQEPs[2], lastQEP)
    /\ planIndexes[Len(planIndexes)] = 1

\* C18: at every step no member of the distinct plans is equivalent, as the
\* diff from the earlier to the later one tells, to a later member.
C18_DistinctPlansUnique ==
    mode = "enumerate" =>
        \A i \in 1..Len(lstAllQEPs) : \A j \in (i + 1)..Len(lstAllQEPs) :
            ~SimilarPlan(lstAllQEPs[i], lstAllQEPs[j])

\* C18 witness: two distinct plans have been found, and plans equivalent to
\* one of them were met at other grid points.
C18_Witness ==
    /\ mode = "enumerate"
    /\ pc = "done"
    /\ Len(lstAllQEPs) >= 2
    /\ Len(planIndexes) > Len(lstAllQEPs)

\* the query of the p-th grid point, the grid taken row by row: the outer
\* loop over the first dimension, the inner one over the second
QueryOfPoint(p) ==
    IF lstSelValsDimension02.isNone
    THEN SubstituteValue(templateQuery, lstSelValsDimension01[p])
    ELSE LET n2 == Len(lstSelValsDimension02.vals) IN
         SubstituteValue(
             SubstituteValue(templateQuery, lstSelValsDimension01[((p - 1) \div n2) + 1]),
             lstSelValsDimension02.vals[((p - 1) % n2) + 1])

\* C19: whenever the conversion succeeds, the template holds as many
\* predicate tokens as the attribute list has entries.
C19_TokensMatchAttributes ==
    (Converted /\ templateQuery # <<>>) =>
        Cardinality({i \in 1..Len(templateQuery) : templateQuery[i] = PREDICATE_TOKEN})
            = Len(lstPredicateAttributes)

\* C20: the enumeration requests one plan per grid point, one after another
\* in row-major order, |dim1| or |dim1| * |dim2| of them in all, and the plan
\* grid has one entry per request in that order.
C20_OneRequestPerGridPoint ==
    mode = "enumerate" =>
        /\ Len(sent) <= GridSize
        /\ \A p \in 1..Len(sent) : sent[p] = QueryOfPoint(p)
        /\ Len(planIndexes) = Len(sent)
        /\ Len(sent) = (IF lstSelValsDimension02.isNone THEN index
                        ELSE index * Len(lstSelValsDimension02.vals) + index2)
                       + (IF pc = "reset" THEN 1 ELSE 0)
        /\ pc = "done" => Len(sent) = GridSize

\* C20 witness: a grid of two rows and two columns has been enumerated.
C20_Witness ==
    /\ mode = "enumerate"
    /\ pc = "done"
    /\ ~lstSelValsDimension02.isNone
    /\ Len(lstSelValsDimension01) >= 2
    /\ Len(lstSelValsDimension02.vals) >= 2
    /\ Len(planIndexes) = GridSize

---------------------------------------------------------------------------
(* Replay of plan equivalence: C21 *)

\* the plan numbers of the members of lstAllQEPs the diff judges equivalent
\* to the actual plan
EquivalentMembers ==
    {i \in 1..Len(lstAllQEPs) : SimilarPlan(lstAllQEPs[i], actualQEP)}

\* C21: compareActualQEP returns found with the smallest plan number whose
\* member is equivalent to the actual plan, returns not found exactly when
\* no member is equivalent, and leaves the list of distinct plans unchanged.
C21_SmallestEquivalentMember ==
    /\ [](Compared =>
            LET members == EquivalentMembers IN
            /\ (members = {}) <=> (ret[1] = RET_QEP_NOT_FOUND)
            /\ (members # {}) <=>
                   (/\ ret[1] = RET_QEP_FOUND
                    /\ ret[2] \in members
                    /\ \A i \in members : ret[2] <= i))
    /\ [][ret' # ret => lstAllQEPs' = lstAllQEPs]_vars

\* C21 witness: the actual plan has been compared with two distinct plans
\* that are both equivalent to it.
C21_Witness ==
    /\ Compared
    /\ Len(lstAllQEPs) = 2
    /\ EquivalentMembers = {1, 2}
    /\ ret = <<RET_QEP_FOUND, 1>>

---------------------------------------------------------------------------
(* Instantiation of the template at a grid point: C22 *)

\* the positions of the predicate token in a query
TokensIn(q) == {i \in 1..Len(q) : q[i] = PREDICATE_TOKEN}

\* the selectivity value of dimension k (1 or 2) at the p-th grid point
ValueOfPoint(p, k) ==
    IF lstSelValsDimension02.isNone
    THEN lstSelValsDimension01[p]
    ELSE LET n2 == Len(lstSelValsDimension02.vals) IN
         IF k = 1 THEN lstSelValsDimension01[((p - 1) \div n2) + 1]
         ELSE lstSelValsDimension02.vals[((p - 1) % n2) + 1]

\* the number of dimensions of the grid
Dimensions == IF lstSelValsDimension02.isNone THEN 1 ELSE 2

\* the k-th token of the template has given way to "<= value" in q, the
\* name before it is the k-th attribute, the rest of q is the template
InstantiatedAt(q, p, k) ==
    /\ Cardinality(TokensIn(templateQuery)) >= k
    /\ LET at == CHOOSE i \in TokensIn(templateQuery) :
                     Cardinality({j \in TokensIn(templateQuery) : j < i}) = k - 1
       IN  /\ q[at] = "<= " \o StrFloat(ValueOfPoint(p, k))
           /\ at > 1
           /\ q[at - 1] = lstPredicateAttributes[k]

\* C22: the query sent for a grid point is the template with its first
\* token replaced by "<= v1" and, with two dimensions, its next token by
\* "<= v2"; it holds no token any more, and the value next to each
\* attribute name is the value sampled for that attribute.
C22_PointInstantiation ==
    (mode = "explain query" /\ pc \in {"reset", "done"}) =>
        \A p \in 1..Len(planIndexes) :
            /\ Len(sent[p]) = Len(templateQuery)
            /\ TokensIn(sent[p]) = {}
            /\ \A k \in 1..Dimensions : InstantiatedAt(sent[p], p, k)
            /\ \A i \in 1..Len(templateQuery) :
                   i \notin TokensIn(templateQuery) => sent[p][i] = templateQuery[i]

---------------------------------------------------------------------------
(* Representative values of the sampler: C23 *)

\* the position in the histogram of the j-th bound the stride retains
RetainedAt(j) == (j - 1) * ((100 \div RESOLUTION) + 1) + 1

\* C23: each value the sampler returns is the midpoint between a retained
\* histogram bound and the bound that follows it in the histogram, strictly
\* between the two when they differ (values in halves, bounds whole).
C23_MidpointOfBoundAndSuccessor ==
    Sampled =>
        \A j \in 1..Len(lstSelValsDimension01) :
            RetainedAt(j) + 1 <= Len(pg_stats) =>
                LET bound == pg_stats[RetainedAt(j)]
                    successor == pg_stats[RetainedAt(j) + 1]
                    value == lstSelValsDimension01[j]
                IN  /\ value = bound + successor
                    /\ bound # successor =>
                           /\ 2 * Min(bound, successor) < value
                           /\ value < 2 * Max(bound, successor)

---------------------------------------------------------------------------
(* Explanation for one attribute: C24 *)

\* C24: for one attribute the ranges of every plan hold the row bounds
\* (0, 0): the plan grid is taken as a single row whatever its length.
C24_SingleRowForOneAttribute ==
    (Explained /\ Len(lstPredicateAttributes) = 1) =>
        \A i \in 1..Len(dictSelectvityRanges) :
            dictSelectvityRanges[i].v[1] = <<0, 0>>

---------------------------------------------------------------------------
(* Filtering of the clauses that are not numeric: C25 *)

RECURSIVE AlignedPieces(_, _)
\* the typed WHERE clause, from comparison i on, with each numeric
\* comparison replaced by the name of the column it compares and the token
AlignedPieces(where, i) ==
    IF i > Len(where) THEN <<>>
    ELSE (IF i > 1 THEN <<" and ">> ELSE <<>>)
         \o (IF IsFloat(where[i])
             THEN <<AfterLastDot(where[i].left.text), PREDICATE_TOKEN>>
             ELSE <<ClauseText(where[i])>>)
         \o AlignedPieces(where, i + 1)

\* C25: dropping the clauses that are not numeric drops their attributes
\* and nothing else: the attributes left are the columns of the numeric
\* clauses, in order, and the token written in place of each numeric clause
\* names the column that clause compares.
C25_FilteringKeepsAlignment ==
    Converted =>
        /\ raised # "IndexError"
        /\ templateQuery # <<>> =>
              /\ lstPredicateAttributes =
                     [i \in 1..Len(NumericClauses) |->
                         AfterLastDot(NumericClauses[i].left.text)]
              /\ templateQuery = <<Head(QueryText(entry_query))>>
                                     \o AlignedPieces(entry_query, 1)

---------------------------------------------------------------------------
(* Annotation, the order of the identifiers: C26 *)

\* the number of nodes before the i-th that have the kind of the i-th
EarlierOfKind(nodes, i) ==
    Cardinality({j \in 1..(i - 1) : KindOf(nodes[j]) = KindOf(nodes[i])})

\* C26: the id of a node of kind K is "K_k" with k one more than the
\* number of nodes of kind K before it in the pre-order traversal of the
\* plan (parent before children, children left to right), so that the
\* numbers of each kind run from 1 to their count without gaps.
C26_IdsFollowPreOrder ==
    Annotated =>
        LET nodes == AnnotatedNodes IN
        \A i \in 1..Len(nodes) :
            Get(nodes[i], K_id).s =
                KindOf(nodes[i]) \o "_" \o ToString(1 + EarlierOfKind(nodes, i))

\* C26 witness: in an annotated plan a join lies below a join of the same
\* kind, and a scan of a kind met before comes after it.
C26_Witness ==
    /\ Annotated
    /\ LET P == FirstPlan(query_plan) IN
          /\ Len(SubPlans(P)) = 2
          /\ KindOf(SubPlans(P)[1]) = KindOf(P)
          /\ Get(SubPlans(P)[1], K_id).s = KindOf(P) \o "_2"
          /\ Len(SubPlans(SubPlans(P)[1])) = 1
          /\ KindOf(SubPlans(P)[2]) = KindOf(SubPlans(SubPlans(P)[1])[1])
          /\ Get(SubPlans(P)[2], K_id).s = KindOf(SubPlans(P)[2]) \o "_2"

---------------------------------------------------------------------------
(* The plan grid during the enumeration: C27 *)

\* the position of the first cell holding plan number k
FirstCellOf(k) ==
    CHOOSE p \in 1..Len(planIndexes) :
        planIndexes[p] = k /\ \A r \in 1..(p - 1) : planIndexes[r] # k

\* C27: at every step of the enumeration each recorded cell holds a plan
\* number in 1..|lstAllQEPs|, every plan number occurs in some cell, plan
\* numbers first appear in increasing order, there are at most as many
\* distinct plans as points sampled, and lstAllQEPs only grows at its end, so
\* that a plan number never comes to denote another plan.
C27_PlanGridWellFormed ==
    /\ [](mode = "enumerate" =>
            /\ \A p \in 1..Len(planIndexes) : planIndexes[p] \in 1..Len(lstAllQEPs)
            /\ \A k \in 1..Len(lstAllQEPs) : k \in Range(planIndexes)
            /\ \A k \in 1..(Len(lstAllQEPs) - 1) : FirstCellOf(k) < FirstCellOf(k + 1)
            /\ Len(lstAllQEPs) <= Len(planIndexes))
    /\ [][mode = "enumerate" =>
            /\ Len(lstAllQEPs') >= Len(lstAllQEPs)
            /\ \A k \in 1..Len(lstAllQEPs) : lstAllQEPs'[k] = lstAllQEPs[k]
            /\ \A p \in 1..Len(planIndexes) : planIndexes'[p] = planIndexes[p]]_vars

\* C27 witness: a grid of two columns has been enumerated in which plan 2
\* was first met at the second point and plan 1 again after it.
C27_Witness ==
    /\ mode = "enumerate"
    /\ pc = "done"
    /\ ~lstSelValsDimension02.isNone
    /\ Len(lstAllQEPs) = 2
    /\ Len(planIndexes) >= 3
    /\ planIndexes[2] = 2
    /\ planIndexes[3] = 1

---------------------------------------------------------------------------
(* Explanation, the keys of the ranges: C28 *)

\* the first and the last cell of a set of cells <<row, column>>, the grid
\* read row by row
FirstCellIn(S) ==
    CHOOSE c \in S : \A d \in S : c[1] < d[1] \/ (c[1] = d[1] /\ c[2] <= d[2])
LastCellIn(S) ==
    CHOOSE c \in S : \A d \in S : c[1] > d[1] \/ (c[1] = d[1] /\ c[2] >= d[2])

\* the ranges the code derives from the cells holding plan k alone
RangesFromCellsOf(k) ==
    LET first == FirstCellIn(CellsOf(k))
        last == LastCellIn(CellsOf(k))
    IN  <<<<first[1], last[1]>>, <<first[2], last[2]>>>>

\* C28: for a plan grid of an enumeration the ranges have exactly the keys
\* 1..n, n the number of distinct plans; the entry under key k is derived
\* from exactly the cells holding plan k; and the explanation has one line
\* per distinct plan, the k-th naming plan k with the ranges of plan k.
C28_RangeKeysArePlanNumbers ==
    Explained =>
        LET n == Cardinality(PlansOfMap) IN
        /\ PlansOfMap = 1..n
        /\ Len(dictSelectvityRanges) = n
        /\ \A k \in 1..n :
              /\ dictSelectvityRanges[k].k = k
              /\ dictSelectvityRanges[k].v = RangesFromCellsOf(k)
        /\ Len(lstSelectivityExplanations) = n
        /\ \A k \in 1..n :
              lstSelectivityExplanations[k] =
                  IF Len(lstPredicateAttributes) = 1
                  THEN ExplanationOneDimension(k, lstPredicateAttributes[1],
                                               RangesFromCellsOf(k)[2])
                  ELSE ExplanationTwoDimensions(k, lstPredicateAttributes,
                                                RangesFromCellsOf(k))

\* C28 witness: a grid in which plan 1 and plan 2 alternate has been
\* explained for two attributes.
C28_Witness ==
    /\ Explained
    /\ Len(lstPredicateAttributes) = 2
    /\ selectivityMap = <<1, 2, 1, 2>>
    /\ Len(dictSelectvityRanges) = 2
    /\ Len(lstSelectivityExplanations) = 2

====
